---- MODULE Spec2Model ----
(***************************************************************************)
(* Model of the sort-plan engine of webgpu-sort (src/src/sort.ts): type    *)
(* reification, resource planning, the bitonic pass schedule, the          *)
(* generated WGSL kernels and the in-place / index sort sessions.          *)
(*                                                                         *)
(* Numbers that the TypeScript computes in floating point (workGroupSize,  *)
(* workGroupCount, h, hh) are exact rationals here, kept as records        *)
(* [num, den] in lowest terms; every division in the code is by a power of *)
(* two or compares values far apart, so no rounding is lost.               *)
(***************************************************************************)
EXTENDS Integers, Sequences, FiniteSets, TLC

\* ------------------------------------------------------------------------
\* Bounds of the model.
\* ------------------------------------------------------------------------
MaxN == 5
MaxVal == 1
MaxBindGroups == 2
MaxEncodes == 2
\* Largest n of the configurations whose construction alone is explored.
MaxPlanN == 9

\* Device limits explored (maxComputeWorkgroupSizeX, in invocations, and
\* maxComputeWorkgroupStorageSize, in bytes).
MaxXSet == {1, 2, 3, 4}
StorageSet == {4, 16, 64}

\* ------------------------------------------------------------------------
\* Program constants.
\* ------------------------------------------------------------------------
LocalBms == 0
LocalDisperse == 1
BigFlip == 2
BigDisperse == 3

Modes == {"ascending", "descending"}
SorterKinds == {"inplace", "index"}
OobPolicies == {"clamp", "zero"}

\* ------------------------------------------------------------------------
\* Exact rationals.
\* ------------------------------------------------------------------------
RECURSIVE Gcd(_, _)
Gcd(a, b) == IF b = 0 THEN a ELSE Gcd(b, a % b)

Rat(a, b) == LET g == Gcd(a, b) IN [num |-> a \div g, den |-> b \div g]
RInt(a) == [num |-> a, den |-> 1]
RLe(a, b) == a.num * b.den <= b.num * a.den
RLt(a, b) == a.num * b.den < b.num * a.den
RMin(a, b) == IF RLe(a, b) THEN a ELSE b
RMulInt(a, m) == Rat(a.num * m, a.den)
RDivInt(a, m) == Rat(a.num, a.den * m)
RDiv(a, b) == Rat(a.num * b.den, a.den * b.num)
RIsInt(a) == a.den = 1
\* Conversion of a JS number to an unsigned 32-bit integer (Uint32Array
\* element store, [EnforceRange] unsigned long): truncation.
RTrunc(a) == a.num \div a.den

\* ------------------------------------------------------------------------
\* src/src/webgpu/util/math.ts
\* ------------------------------------------------------------------------
RECURSIVE BitLength(_)
BitLength(v) == IF v = 0 THEN 0 ELSE 1 + BitLength(v \div 2)

\* Math.clz32 of a value in the int32 range: a negative int32 has its top
\* bit set.
Clz32(x) == IF x < 0 THEN 0 ELSE 32 - BitLength(x)

RECURSIVE Pow2(_)
Pow2(k) == IF k = 0 THEN 1 ELSE 2 * Pow2(k - 1)

\* 1 << s with the shift count taken modulo 32 and an int32 result.
Shl1(s) == LET c == s % 32 IN IF c = 31 THEN (0 - 2147483647) - 1 ELSE Pow2(c)

nextPowerOfTwo(value) == Shl1(32 - Clz32(value - 1))

\* ------------------------------------------------------------------------
\* Element values.  An element is a number in 0..MaxVal; the struct-like
\* types order and key their elements by a field, modelled as value \div 2,
\* so that distinct elements can have equal keys.
\* ------------------------------------------------------------------------
Elems == 0..MaxVal
FieldOf(x) == x \div 2

\* A type descriptor as the caller passes it: comp / dist say whether the
\* property is present and which WGSL function it holds; size is what the
\* struct layout oracle (makeShaderDataDefinitions) reports for the type.
CompKinds == {"none", "lt", "ltField"}
DistKinds == {"none", "id", "field"}

RECURSIVE SeqsUpTo(_, _)
SeqsUpTo(S, k) ==
  IF k = 0 THEN {<<>>}
  ELSE LET shorter == SeqsUpTo(S, k - 1)
       IN shorter \cup {Append(s, x) : s \in {q \in shorter : Len(q) = k - 1}, x \in S}

BindGroupLists == SeqsUpTo(0..(MaxBindGroups + 1), MaxBindGroups)

TypeDesc(c, d, bg) ==
  [comp |-> c, dist |-> d, bindGroups |-> bg,
   size |-> IF c = "ltField" \/ d = "field" THEN 8 ELSE 4]

AllTypes ==
  {TypeDesc(c, "none", <<>>) : c \in CompKinds}
    \cup {TypeDesc(c, d, bg) : c \in CompKinds, d \in DistKinds \ {"none"}, bg \in BindGroupLists}

SortableTypes ==
  {TypeDesc(c, "none", <<>>) : c \in CompKinds \ {"none"}}
    \cup {TypeDesc("none", d, <<>>) : d \in DistKinds \ {"none"}}

computeSizeOfElement(e) == e.size

\* The comparison function of a ComparisonElementType.
lessThan(kind, l, r) == IF kind = "ltField" THEN FieldOf(l) < FieldOf(r) ELSE l < r

\* The distance function of a DistanceElementType.
distance(kind, x) == IF kind = "field" THEN FieldOf(x) ELSE x

\* ------------------------------------------------------------------------
\* reifyWGSLDistanceFunction
\* ------------------------------------------------------------------------
RECURSIVE InsertSorted(_, _)
InsertSorted(s, x) ==
  IF s = <<>> THEN <<x>>
  ELSE IF x < Head(s) THEN <<x>> \o s
  ELSE <<Head(s)>> \o InsertSorted(Tail(s), x)

\* bindGroups.sort((a, b) => a.index - b.index)
RECURSIVE SortByIndex(_)
SortByIndex(s) == IF s = <<>> THEN <<>> ELSE InsertSorted(SortByIndex(Tail(s)), Head(s))

ConsecutiveFromOne_FromZero(s) == \A i \in 1..Len(s) : s[i] = i - 1

\* The assertion loop: bindGroups[i].index === i + 1 (0-based i).
ConsecutiveFromOne(s) == \A i \in 1..Len(s) : s[i] = i

reifyWGSLDistanceFunction(bg) ==
  LET sorted == SortByIndex(bg)
  IN [ok |-> ConsecutiveFromOne(sorted), bindGroups |-> sorted]

\* reifyComparisonElementType(ComparisonElementType.u32): the key type of a
\* distance function and the value type of an index sort.
U32Type == TypeDesc("lt", "none", <<>>)

\* ------------------------------------------------------------------------
\* State.
\* ------------------------------------------------------------------------
VARIABLES
  config,      \* the InPlaceSorterConfig / IndexSorterConfig and device
  status,      \* "new", "ready" (a sorter was returned) or "error" (threw)
  error,       \* which assertion threw, "none" otherwise
  internals,   \* sortInternals, indexInternals, distInternals
  buffer,      \* contents of config.buffer
  distances,   \* contents of the temporary key buffer (Distance types)
  indices,     \* contents of the index buffer (index sorter)
  queue,       \* dispatches submitted to the device queue, not yet executed
  pre,         \* contents of buffer when sort() was last called
  last,        \* fate of the last submit: "none", "rejected" or "accepted"
  oob,         \* how this device resolves an out-of-bounds array index
  objects,     \* device objects the constructor has created
  destroyed,   \* buffers on which destroy() has been called
  encoder,     \* what encode() calls recorded into the caller's encoder
  lastCall,    \* what the last encode() / sort() / destroy() call did
  touched,     \* elements of k / v the last sort dispatch read or wrote
  args,        \* arguments of the helper function being called on its own
  ret,         \* what that helper returned
  pc,          \* where that call is: "idle", "call", "start", "outer", "inner", "done"
  sched_alignedN,      \* alignedN of the call whose schedule is built
  sched_workGroupSize, \* workGroupSize of that call
  sched_h,     \* h of the schedule loop
  sched_hh     \* hh of the schedule loop

\* The variables of a helper function called on its own; the sessions
\* leave them alone.
helper == <<args, ret, pc, sched_alignedN, sched_workGroupSize, sched_h, sched_hh>>

vars == <<config, status, error, internals, buffer, distances, indices, queue, pre, last, oob,
          objects, destroyed, encoder, lastCall, touched, helper>>

NoArgs == [fn |-> "none"]

HelperIdle ==
  /\ args = NoArgs
  /\ ret = 0
  /\ pc = "idle"
  /\ sched_alignedN = 0
  /\ sched_workGroupSize = 0
  /\ sched_h = 0
  /\ sched_hh = 0

N == config.n
Range == 0..(N - 1)
HasComp == config.type.comp # "none"
HasDist == config.type.dist # "none"

\* ------------------------------------------------------------------------
\* initKeyValueInPlaceSort: resource planning and the pass schedule.
\* ------------------------------------------------------------------------
alignedN(n) == nextPowerOfTwo(n)

maxWorkGroupSizeForMemory_KeyOnly(storage, keySize, valueSize) ==
  Rat(storage, 2 * nextPowerOfTwo(keySize))

maxWorkGroupSizeForMemory(storage, keySize, valueSize) ==
  Rat(storage, 2 * nextPowerOfTwo(keySize + valueSize))

workGroupSize(dev, n, keySize, valueSize) ==
  RMin(RInt(dev.maxX),
       RMin(maxWorkGroupSizeForMemory(dev.storage, keySize, valueSize),
            Rat(alignedN(n), 2)))

workGroupCount(n, wgs) == RDiv(RInt(alignedN(n)), RMulInt(wgs, 2))

\* bitonicPass(h, algorithm): the parameter block is new Uint32Array([h, algorithm]).
bitonicPass(h, algorithm) == [h |-> RTrunc(h), algorithm |-> algorithm]

\* for (var hh = h / 2; hh > 1; hh /= 2)
RECURSIVE DisperseLoop(_, _)
DisperseLoop_StopsAboveTwo(hh, wgc) ==
  IF RLt(RInt(2), hh)
  THEN <<bitonicPass(hh, IF RLe(hh, wgc) THEN LocalDisperse ELSE BigDisperse)>>
         \o DisperseLoop(RDivInt(hh, 2), wgc)
  ELSE <<>>

DisperseLoop(hh, wgc) ==
  IF RLt(RInt(1), hh)
  THEN <<bitonicPass(hh, IF RLe(hh, wgc) THEN LocalDisperse ELSE BigDisperse)>>
         \o DisperseLoop(RDivInt(hh, 2), wgc)
  ELSE <<>>

\* for (; h <= alignedN; h *= 2)
RECURSIVE FlipLoop(_, _, _)
FlipLoop(h, aN, wgc) ==
  IF RLe(h, RInt(aN))
  THEN <<bitonicPass(h, BigFlip)>> \o DisperseLoop(RDivInt(h, 2), wgc)
         \o FlipLoop(RMulInt(h, 2), aN, wgc)
  ELSE <<>>

Schedule(n, wgs, wgc) ==
  <<bitonicPass(RMulInt(wgs, 2), LocalBms)>> \o FlipLoop(RMulInt(wgs, 4), alignedN(n), wgc)

initKeyValueInPlaceSort(dev, n, keySize, valueSize) ==
  LET wgs == workGroupSize(dev, n, keySize, valueSize)
      wgc == workGroupCount(n, wgs)
  IN [workGroupSize |-> wgs, workGroupCount |-> wgc, params |-> Schedule(n, wgs, wgc)]

\* initSetIndices and initDistanceMap size their dispatch the same way.
initSetIndices(dev, n) ==
  LET wgs == RMin(RInt(dev.maxX), RInt(alignedN(n)))
  IN [workGroupSize |-> wgs, workGroupCount |-> RDiv(RInt(alignedN(n)), wgs)]

initDistanceMap(dev, n) ==
  LET wgs == RMin(RInt(dev.maxX), RInt(alignedN(n)))
  IN [workGroupSize |-> wgs, workGroupCount |-> RDiv(RInt(alignedN(n)), wgs)]

NoInternals == [sort |-> "none", index |-> "none", dist |-> "none", bindGroups |-> <<>>]

\* ------------------------------------------------------------------------
\* createInPlaceSorter / createIndexSorter (construction).
\* ------------------------------------------------------------------------
\* Size of the payload the sort kernel carries: the element itself for an
\* in-place Distance sort, a u32 index for an index sort, none otherwise.
ValueSize(kind, type) ==
  IF kind = "index" THEN computeSizeOfElement(U32Type)
  ELSE IF type.dist # "none" THEN computeSizeOfElement(type)
  ELSE 0

KeySize(type) ==
  IF type.comp # "none" THEN computeSizeOfElement(type) ELSE computeSizeOfElement(U32Type)

ExactlyOne_AtLeastOne(hasComp, hasDist) == hasComp \/ hasDist

\* The assertion that guards both constructors.
ExactlyOne(hasComp, hasDist) == hasComp # hasDist

BuildInternals(cfg) ==
  [sort  |-> initKeyValueInPlaceSort(cfg.device, cfg.n, KeySize(cfg.type),
                                     ValueSize(cfg.kind, cfg.type)),
   index |-> IF cfg.kind = "index" THEN initSetIndices(cfg.device, cfg.n) ELSE "none",
   dist  |-> IF cfg.type.dist # "none" THEN initDistanceMap(cfg.device, cfg.n) ELSE "none",
   bindGroups |-> IF cfg.type.dist # "none"
                  THEN reifyWGSLDistanceFunction(cfg.type.bindGroups).bindGroups
                  ELSE <<>>]

\* Device objects, named by class, role and (for the per-pass ones) the
\* position of the pass in the plan.
Obj(class, name, i) == [class |-> class, name |-> name, i |-> i]

DataBuffer == Obj("buffer", "data", 0)
IndexBuffer == Obj("buffer", "indices", 0)
DistancesBuffer == Obj("buffer", "distances", 0)
ParamBuffer(i) == Obj("buffer", "param", i)
NoBuffer == Obj("buffer", "none", 0)

\* What each step of a constructor creates on the device.
StepObjects(cfg, step) ==
  IF step = "createIndices"
  THEN IF cfg.indices = "absent" THEN {IndexBuffer} ELSE {}
  ELSE IF step = "initSetIndices"
  THEN {Obj("shader", "setIndices", 0), Obj("pipeline", "setIndices", 0),
        Obj("bindGroup", "setIndices", 0)}
  ELSE IF step = "initDistanceMap"
  THEN IF cfg.type.dist # "none"
       THEN {Obj("shader", "distanceMap", 0), Obj("bindGroupLayout", "distanceMap", 0),
             Obj("pipelineLayout", "distanceMap", 0), Obj("pipeline", "distanceMap", 0),
             DistancesBuffer, Obj("bindGroup", "distanceMap", 0)}
       ELSE {}
  ELSE IF step = "initKeyValueInPlaceSort"
  THEN LET plan == initKeyValueInPlaceSort(cfg.device, cfg.n, KeySize(cfg.type),
                                           ValueSize(cfg.kind, cfg.type)).params
       IN {Obj("shader", "sort", 0), Obj("pipeline", "sort", 0), Obj("bindGroup", "KV", 0)}
            \cup {ParamBuffer(i) : i \in 1..Len(plan)}
            \cup {Obj("bindGroup", "P", i) : i \in 1..Len(plan)}
  ELSE {}

ConstructorSteps_AllocateFirst(kind) ==
  IF kind = "index"
  THEN <<"reifyComp", "createIndices", "reifyDist", "assert", "initSetIndices",
         "initDistanceMap", "initKeyValueInPlaceSort">>
  ELSE <<"reifyComp", "reifyDist", "initDistanceMap", "assert", "initKeyValueInPlaceSort">>

\* The statements of createInPlaceSorter / createIndexSorter, in order.
ConstructorSteps(kind) ==
  IF kind = "index"
  THEN <<"reifyComp", "reifyDist", "assert", "createIndices", "initSetIndices",
         "initDistanceMap", "initKeyValueInPlaceSort">>
  ELSE <<"reifyComp", "reifyDist", "assert", "initDistanceMap", "initKeyValueInPlaceSort">>

\* Runs the steps until one throws: the error (or "none") and the device
\* objects created up to that point.
RECURSIVE Construct(_, _, _)
Construct(cfg, steps, objs) ==
  IF steps = <<>> THEN [error |-> "none", objects |-> objs]
  ELSE IF Head(steps) = "reifyDist" /\ cfg.type.dist # "none"
          /\ ~reifyWGSLDistanceFunction(cfg.type.bindGroups).ok
  THEN [error |-> "bindGroups", objects |-> objs]
  ELSE IF Head(steps) = "assert" /\ ~ExactlyOne(cfg.type.comp # "none", cfg.type.dist # "none")
  THEN [error |-> "exactlyOne", objects |-> objs]
  ELSE Construct(cfg, Tail(steps), objs \cup StepObjects(cfg, Head(steps)))

NoCall == [op |-> "none", recorded |-> <<>>, encoders |-> 0, submits |-> 0, returned |-> NoBuffer]

\* The constructor.  reifyDistanceElementType runs (and may throw) before the
\* exactly-one assertion; a throw returns no sorter and leaves no internals.
Create ==
  /\ status = "new"
  /\ LET r == Construct(config, ConstructorSteps(config.kind), {})
     IN /\ objects' = r.objects
        /\ error' = r.error
        /\ IF r.error # "none"
           THEN /\ status' = "error"
                /\ UNCHANGED internals
           ELSE /\ status' = "ready"
                /\ internals' = BuildInternals(config)
  /\ UNCHANGED <<helper, config, buffer, distances, indices, queue, pre, last, oob,
                 destroyed, encoder, lastCall, touched>>

\* ------------------------------------------------------------------------
\* The sort kernel (createSortKeyValueInPlaceShader).  A kernel context ctx
\* holds what the generator bakes into the shader text: n, the mode, the
\* comparison function, whether a value array is bound, and wgs.
\* A kernel state st is [k, v]: the key array and the value array.
\* ------------------------------------------------------------------------
_compare(ctx, left, right) ==
  IF ctx.mode = "ascending"
  THEN lessThan(ctx.comp, left, right)
  ELSE ~lessThan(ctx.comp, left, right)

SwapGlobal(a, x, y) == [a EXCEPT ![x] = a[y], ![y] = a[x]]

global_compare_and_swap(ctx, st, x, y) ==
  IF x >= ctx.n \/ y >= ctx.n THEN st
  ELSE IF _compare(ctx, st.k[y], st.k[x])
  THEN [k |-> SwapGlobal(st.k, x, y),
        v |-> IF ctx.hasValue THEN SwapGlobal(st.v, x, y) ELSE st.v]
  ELSE st

\* u32 remainder; WGSL defines a runtime x % 0 as 0.
UMod(a, b) == IF b = 0 THEN 0 ELSE a % b

big_flip(ctx, st, t_prime, h) ==
  LET half_h == h \div 2
      q == ((2 * t_prime) \div h) * h
      x == q + UMod(t_prime, half_h)
      y == (q + h) - UMod(t_prime, half_h) - 1
  IN global_compare_and_swap(ctx, st, x, y)

big_disperse(ctx, st, t_prime, h) ==
  LET half_h == h \div 2
      q == ((2 * t_prime) \div h) * h
      x == q + UMod(t_prime, half_h)
      y == x + half_h
  IN global_compare_and_swap(ctx, st, x, y)

\* The invocations 0..count-1 in the order the device happens to run them.
RECURSIVE Ascending(_, _)
Ascending(from, count) ==
  IF count <= 0 THEN <<>> ELSE <<from>> \o Ascending(from + 1, count - 1)

RECURSIVE Reversed(_)
Reversed(s) == IF s = <<>> THEN <<>> ELSE Append(Reversed(Tail(s)), Head(s))

Invocations(count, order) ==
  IF order = "forward" THEN Ascending(0, count) ELSE Reversed(Ascending(0, count))

Orders == {"forward", "backward"}

\* One BigFlip / BigDisperse dispatch: every invocation does one global
\* compare-and-swap.
RECURSIVE BigPass(_, _, _, _, _)
BigPass(ctx, st, ts, h, algorithm) ==
  IF ts = <<>> THEN st
  ELSE BigPass(ctx,
               IF algorithm = BigFlip
               THEN big_flip(ctx, st, Head(ts), h)
               ELSE big_disperse(ctx, st, Head(ts), h),
               Tail(ts), h, algorithm)

\* Workgroup memory local_k / local_v: arrays of 2 * wgs elements, zero
\* initialised.  An index outside the array is resolved by the device's
\* bounds policy: clamped to the last element, or reads zero / drops the
\* write.  loc.hit records that such an access happened.
LocalSize(ctx) == 2 * ctx.wgs

ReadLocal(ctx, a, i, pol) ==
  IF i < LocalSize(ctx) THEN a[i]
  ELSE IF pol = "clamp" THEN a[LocalSize(ctx) - 1] ELSE 0

WriteLocal(ctx, a, i, val, pol) ==
  IF i < LocalSize(ctx) THEN [a EXCEPT ![i] = val]
  ELSE IF pol = "clamp" THEN [a EXCEPT ![LocalSize(ctx) - 1] = val] ELSE a

\* let tmp = a[x]; a[x] = a[y]; a[y] = tmp;
SwapLocal(ctx, a, x, y, pol) ==
  LET tmp == ReadLocal(ctx, a, x, pol)
      a1 == WriteLocal(ctx, a, x, ReadLocal(ctx, a, y, pol), pol)
  IN WriteLocal(ctx, a1, y, tmp, pol)

local_compare_and_swap(ctx, loc, x, y, offset, pol) ==
  IF offset + x >= ctx.n \/ offset + y >= ctx.n THEN loc
  ELSE LET outside == x >= LocalSize(ctx) \/ y >= LocalSize(ctx)
       IN IF _compare(ctx, ReadLocal(ctx, loc.k, y, pol), ReadLocal(ctx, loc.k, x, pol))
          THEN [k |-> SwapLocal(ctx, loc.k, x, y, pol),
                v |-> IF ctx.hasValue THEN SwapLocal(ctx, loc.v, x, y, pol) ELSE loc.v,
                hit |-> loc.hit \/ outside]
          ELSE [loc EXCEPT !.hit = loc.hit \/ outside]

local_init(ctx, st, offset) ==
  [k |-> [i \in 0..(LocalSize(ctx) - 1) |-> IF offset + i < ctx.n THEN st.k[offset + i] ELSE 0],
   v |-> [i \in 0..(LocalSize(ctx) - 1) |->
            IF ctx.hasValue /\ offset + i < ctx.n THEN st.v[offset + i] ELSE 0],
   hit |-> FALSE]

local_flush(ctx, st, loc, offset) ==
  [k |-> [i \in DOMAIN st.k |->
            IF i >= offset /\ i < offset + LocalSize(ctx) THEN loc.k[i - offset] ELSE st.k[i]],
   v |-> IF ctx.hasValue
         THEN [i \in DOMAIN st.v |->
                 IF i >= offset /\ i < offset + LocalSize(ctx) THEN loc.v[i - offset] ELSE st.v[i]]
         ELSE st.v]

\* One barrier-delimited sub-stage: every invocation t of the workgroup
\* does one local compare-and-swap at distance h.
local_flip_NotMirrored(ctx, loc, t, h, offset, pol) ==
  LET half_h == h \div 2
      base == h * ((2 * t) \div h)
  IN local_compare_and_swap(ctx, loc, base + UMod(t, half_h),
                            base + half_h + UMod(t, half_h), offset, pol)

local_flip(ctx, loc, t, h, offset, pol) ==
  LET half_h == h \div 2
      base == h * ((2 * t) \div h)
  IN local_compare_and_swap(ctx, loc, base + UMod(t, half_h),
                            base + ((h - 1) - UMod(t, half_h)), offset, pol)

LocalDisperseStep(ctx, loc, t, hh, offset, pol) ==
  LET half_h == hh \div 2
      base == hh * ((2 * t) \div hh)
  IN local_compare_and_swap(ctx, loc, base + UMod(t, half_h),
                            base + half_h + UMod(t, half_h), offset, pol)

RECURSIVE LocalStage(_, _, _, _, _, _, _)
\* (The test of loc.hit, here and in the two loops below, is always true: it
\* has loc evaluated before the next step is taken.)
LocalStage(ctx, loc, ts, h, flip, offset, pol) ==
  IF ts # <<>> /\ loc.hit \in BOOLEAN
  THEN LocalStage(ctx,
                  IF flip
                  THEN local_flip(ctx, loc, Head(ts), h, offset, pol)
                  ELSE LocalDisperseStep(ctx, loc, Head(ts), h, offset, pol),
                  Tail(ts), h, flip, offset, pol)
  ELSE loc

\* for (; hh > 1; hh /= 2)
RECURSIVE local_disperse(_, _, _, _, _, _)
local_disperse(ctx, loc, ts, h, offset, pol) ==
  IF h > 1 /\ loc.hit \in BOOLEAN
  THEN local_disperse(ctx, LocalStage(ctx, loc, ts, h, FALSE, offset, pol),
                      ts, h \div 2, offset, pol)
  ELSE loc

\* for (var hh: u32 = 2; hh <= h; hh *= 2), entered at hh
RECURSIVE local_bms(_, _, _, _, _, _, _)
local_bms(ctx, loc, ts, hh, h, offset, pol) ==
  IF hh <= h /\ loc.hit \in BOOLEAN
  THEN local_bms(ctx,
                 local_disperse(ctx, LocalStage(ctx, loc, ts, hh, TRUE, offset, pol),
                                ts, hh \div 2, offset, pol),
                 ts, hh * 2, h, offset, pol)
  ELSE loc

\* What one workgroup leaves in its fast memory after a LocalBms or
\* LocalDisperse dispatch.
RunWorkgroup(ctx, st, wg, h, algorithm, order, pol) ==
  LET offset == ctx.wgs * 2 * wg
      ts == Invocations(ctx.wgs, order)
      loc == local_init(ctx, st, offset)
  IN IF algorithm = LocalBms
     THEN local_bms(ctx, loc, ts, 2, h, offset, pol)
     ELSE local_disperse(ctx, loc, ts, h, offset, pol)

\* One LocalBms / LocalDisperse dispatch over the workgroups `groups`; the
\* result carries hit, whether a fast-memory index fell outside the array.
RECURSIVE LocalPass(_, _, _, _, _, _, _)
LocalPass(ctx, sth, groups, h, algorithm, order, pol) ==
  IF groups = <<>> THEN sth
  ELSE LET loc == RunWorkgroup(ctx, sth, Head(groups), h, algorithm, order, pol)
           flushed == local_flush(ctx, sth, loc, ctx.wgs * 2 * Head(groups))
       IN LocalPass(ctx, [k |-> flushed.k, v |-> flushed.v, hit |-> sth.hit \/ loc.hit],
                    Tail(groups), h, algorithm, order, pol)

\* main: one dispatch of `groups` workgroups with parameter block p.
SortDispatch(ctx, st, p, groups, order, pol) ==
  IF p.algorithm <= LocalDisperse
  THEN LocalPass(ctx, [k |-> st.k, v |-> st.v, hit |-> FALSE],
                 Invocations(groups, order), p.h, p.algorithm, order, pol)
  ELSE LET r == BigPass(ctx, st, Invocations(groups * ctx.wgs, order), p.h, p.algorithm)
       IN [k |-> r.k, v |-> r.v, hit |-> FALSE]

\* The elements of the storage arrays k / v that the kernel reads or writes:
\* the same statements as above, keeping the indices instead of the values.
global_compare_and_swap_access(ctx, x, y) ==
  IF x >= ctx.n \/ y >= ctx.n THEN {} ELSE {x, y}

big_flip_access(ctx, t_prime, h) ==
  LET half_h == h \div 2
      q == ((2 * t_prime) \div h) * h
  IN global_compare_and_swap_access(ctx, q + UMod(t_prime, half_h),
                                    (q + h) - UMod(t_prime, half_h) - 1)

big_disperse_access(ctx, t_prime, h) ==
  LET half_h == h \div 2
      q == ((2 * t_prime) \div h) * h
      x == q + UMod(t_prime, half_h)
  IN global_compare_and_swap_access(ctx, x, x + half_h)

local_init_access(ctx, offset, i) == IF offset + i < ctx.n THEN {offset + i} ELSE {}

local_flush_access_Unguarded(ctx, offset, i) == {offset + i}

local_flush_access(ctx, offset, i) == IF offset + i < ctx.n THEN {offset + i} ELSE {}

\* main, for every invocation of a dispatch of `groups` workgroups.
SortDispatchAccess(ctx, p, groups) ==
  IF p.algorithm <= LocalDisperse
  THEN UNION {local_init_access(ctx, ctx.wgs * 2 * wg, i)
                \cup local_flush_access(ctx, ctx.wgs * 2 * wg, i) :
              wg \in 0..(groups - 1), i \in 0..(2 * ctx.wgs - 1)}
  ELSE UNION {IF p.algorithm = BigFlip
              THEN big_flip_access(ctx, t_prime, p.h)
              ELSE big_disperse_access(ctx, t_prime, p.h) :
              t_prime \in 0..(groups * ctx.wgs - 1)}

\* createSetIndicesShader: indices[i.x] = i.x for the dispatched i.x < n.
SetIndicesDispatch(n, a, invocations) ==
  [i \in DOMAIN a |-> IF i < invocations /\ i < n THEN i ELSE a[i]]

\* createDistanceMapShader: distances[i.x] = dist(input[i.x]).
DistanceMapDispatch(n, kind, input, a, invocations) ==
  [i \in DOMAIN a |-> IF i < invocations /\ i < n THEN distance(kind, input[i]) ELSE a[i]]

\* ------------------------------------------------------------------------
\* The session: encode / sort and the device executing the recorded
\* dispatches in order.
\* ------------------------------------------------------------------------
HasValue(cfg) == cfg.kind = "index" \/ cfg.type.dist # "none"

\* What createSortKeyValueInPlaceShader is called with.
KernelCtx(cfg, sortInternals) ==
  [n |-> cfg.n,
   mode |-> cfg.mode,
   comp |-> IF cfg.type.comp # "none" THEN cfg.type.comp ELSE U32Type.comp,
   hasValue |-> HasValue(cfg),
   wgs |-> RTrunc(sortInternals.workGroupSize)]

\* Shader modules the device accepts: array<T, n> needs n >= 1 and
\* @workgroup_size(wgs) needs a positive integer.
SortPipelineValid(cfg, sortInternals) ==
  /\ cfg.n >= 1
  /\ RIsInt(sortInternals.workGroupSize)
  /\ sortInternals.workGroupSize.num >= 1

AuxPipelineValid(cfg) == cfg.n >= 1

Recorded_SortFirst(cfg, ints) ==
  [i \in 1..Len(ints.sort.params) |-> [op |-> "sort", pass |-> i]]
    \o (IF cfg.kind = "index" THEN <<[op |-> "setIndices", pass |-> 0]>> ELSE <<>>)
    \o (IF cfg.type.dist # "none" THEN <<[op |-> "distanceMap", pass |-> 0]>> ELSE <<>>)

\* encode(): the dispatches recorded, in order.
Recorded(cfg, ints) ==
  (IF cfg.kind = "index" THEN <<[op |-> "setIndices", pass |-> 0]>> ELSE <<>>)
    \o (IF cfg.type.dist # "none" THEN <<[op |-> "distanceMap", pass |-> 0]>> ELSE <<>>)
    \o [i \in 1..Len(ints.sort.params) |-> [op |-> "sort", pass |-> i]]

\* A command buffer that uses an invalid pipeline is rejected at submit and
\* none of its dispatches run.
CommandBufferValid(cfg, ints) ==
  /\ SortPipelineValid(cfg, ints.sort)
  /\ (cfg.kind = "index" \/ cfg.type.dist # "none") => AuxPipelineValid(cfg)

\* The buffers the recorded dispatches are bound to.
UsedBuffers(cfg, ints) ==
  {DataBuffer}
    \cup (IF cfg.kind = "index" THEN {IndexBuffer} ELSE {})
    \cup (IF cfg.type.dist # "none" THEN {DistancesBuffer} ELSE {})
    \cup {ParamBuffer(i) : i \in 1..Len(ints.sort.params)}

Encode_Submits ==
  /\ status = "ready"
  /\ Len(encoder) < MaxEncodes
  /\ encoder' = Append(encoder, Recorded(config, internals))
  /\ queue' = queue \o Recorded(config, internals)
  /\ lastCall' = [op |-> "encode", recorded |-> Recorded(config, internals),
                  encoders |-> 0, submits |-> 1, returned |-> NoBuffer]
  /\ UNCHANGED <<helper, config, status, error, internals, buffer, distances, indices, pre,
                 last, oob, objects, destroyed, touched>>

Encode_ConsumesPlan ==
  /\ status = "ready"
  /\ Len(encoder) < MaxEncodes
  /\ encoder' = Append(encoder, Recorded(config, internals))
  /\ internals' = [internals EXCEPT !.sort.params = <<>>]
  /\ lastCall' = [op |-> "encode", recorded |-> Recorded(config, internals),
                  encoders |-> 0, submits |-> 0, returned |-> NoBuffer]
  /\ UNCHANGED <<helper, config, status, error, buffer, distances, indices, queue, pre,
                 last, oob, objects, destroyed, touched>>

\* encode(encoder): the dispatches are appended to the caller's encoder;
\* nothing is submitted.
Encode ==
  /\ status = "ready"
  /\ Len(encoder) < MaxEncodes
  /\ encoder' = Append(encoder, Recorded(config, internals))
  /\ lastCall' = [op |-> "encode", recorded |-> Recorded(config, internals),
                  encoders |-> 0, submits |-> 0, returned |-> NoBuffer]
  /\ UNCHANGED <<helper, config, status, error, internals, buffer, distances, indices, queue, pre,
                 last, oob, objects, destroyed, touched>>

\* sort(): createCommandEncoder, encode, queue.submit.  The device also
\* rejects a command buffer that uses a destroyed buffer.
Sort ==
  /\ status = "ready"
  /\ queue = <<>>
  /\ pre' = buffer
  /\ IF CommandBufferValid(config, internals) /\ UsedBuffers(config, internals) \cap destroyed = {}
     THEN queue' = Recorded(config, internals) /\ last' = "accepted"
     ELSE queue' = <<>> /\ last' = "rejected"
  /\ lastCall' = [op |-> "sort", recorded |-> Recorded(config, internals),
                  encoders |-> 1, submits |-> 1,
                  returned |-> IF config.kind = "index" THEN IndexBuffer ELSE NoBuffer]
  /\ UNCHANGED <<helper, config, status, error, internals, buffer, distances, indices, oob,
                 objects, destroyed, encoder, touched>>

DestroyedBy_AlsoIndices(cfg, ints) ==
  {ParamBuffer(i) : i \in 1..Len(ints.sort.params)}
    \cup (IF cfg.type.dist # "none" THEN {DistancesBuffer} ELSE {})
    \cup (IF cfg.kind = "index" THEN {IndexBuffer} ELSE {})

DestroyedBy_KeepsDistances(cfg, ints) ==
  {ParamBuffer(i) : i \in 1..Len(ints.sort.params)}
    \cup (IF cfg.kind = "index" /\ cfg.indices = "absent" THEN {IndexBuffer} ELSE {})

\* The buffers destroy() calls GPUBuffer.destroy() on.
DestroyedBy(cfg, ints) ==
  {ParamBuffer(i) : i \in 1..Len(ints.sort.params)}
    \cup (IF cfg.type.dist # "none" THEN {DistancesBuffer} ELSE {})
    \cup (IF cfg.kind = "index" /\ cfg.indices = "absent" THEN {IndexBuffer} ELSE {})

\* destroy()
Destroy ==
  /\ status = "ready"
  /\ destroyed' = destroyed \cup DestroyedBy(config, internals)
  /\ lastCall' = [op |-> "destroy", recorded |-> <<>>, encoders |-> 0, submits |-> 0,
                  returned |-> NoBuffer]
  /\ UNCHANGED <<helper, config, status, error, internals, buffer, distances, indices, queue, pre,
                 last, oob, objects, encoder, touched>>

Keys == IF HasDist THEN distances ELSE buffer
Values == IF config.kind = "index" THEN indices ELSE buffer

\* The device runs the index-initialisation dispatch.
ExecSetIndices ==
  /\ queue # <<>>
  /\ Head(queue).op = "setIndices"
  /\ queue' = Tail(queue)
  /\ indices' = SetIndicesDispatch(N, indices,
                  RTrunc(internals.index.workGroupCount) * RTrunc(internals.index.workGroupSize))
  /\ UNCHANGED <<helper, config, status, error, internals, buffer, distances, pre, last, oob,
                 objects, destroyed, encoder, lastCall, touched>>

\* The device runs the distance-mapping dispatch.
ExecDistanceMap ==
  /\ queue # <<>>
  /\ Head(queue).op = "distanceMap"
  /\ queue' = Tail(queue)
  /\ distances' = DistanceMapDispatch(N, config.type.dist, buffer, distances,
                    RTrunc(internals.dist.workGroupCount) * RTrunc(internals.dist.workGroupSize))
  /\ UNCHANGED <<helper, config, status, error, internals, buffer, indices, pre, last, oob,
                 objects, destroyed, encoder, lastCall, touched>>

\* The device runs one dispatch of the sort kernel.
ExecSortPass ==
  /\ queue # <<>>
  /\ Head(queue).op = "sort"
  /\ queue' = Tail(queue)
  /\ \E order \in Orders, pol \in (IF oob = "unknown" THEN OobPolicies ELSE {oob}) :
       LET r == SortDispatch(KernelCtx(config, internals.sort), [k |-> Keys, v |-> Values],
                             internals.sort.params[Head(queue).pass],
                             RTrunc(internals.sort.workGroupCount), order, pol)
       IN /\ oob' = IF r.hit THEN pol ELSE oob
          /\ IF HasDist
             THEN /\ distances' = r.k
                  /\ IF config.kind = "index"
                     THEN indices' = r.v /\ UNCHANGED buffer
                     ELSE buffer' = r.v /\ UNCHANGED indices
             ELSE /\ buffer' = r.k
                  /\ UNCHANGED distances
                  /\ IF config.kind = "index" THEN indices' = r.v ELSE UNCHANGED indices
  /\ touched' = SortDispatchAccess(KernelCtx(config, internals.sort),
                                    internals.sort.params[Head(queue).pass],
                                    RTrunc(internals.sort.workGroupCount))
  /\ UNCHANGED <<helper, config, status, error, internals, pre, last,
                 objects, destroyed, encoder, lastCall>>

Devices == [maxX : MaxXSet, storage : StorageSet]

\* config.indices is "supplied" when the caller passes an index buffer.
SortConfigs ==
  [kind : SorterKinds, type : SortableTypes, n : 0..MaxN, mode : Modes, device : Devices,
   indices : {"absent"}]

Init ==
  /\ config \in SortConfigs
  /\ status = "new"
  /\ error = "none"
  /\ internals = NoInternals
  /\ buffer \in [0..(config.n - 1) -> Elems]
  /\ distances = [i \in 0..(config.n - 1) |-> 0]
  /\ indices = [i \in 0..(config.n - 1) |-> 0]
  /\ queue = <<>>
  /\ pre = buffer
  /\ last = "none"
  /\ oob = "unknown"
  /\ objects = {}
  /\ destroyed = {}
  /\ encoder = <<>>
  /\ lastCall = NoCall
  /\ touched = {}
  /\ HelperIdle

Next == Create \/ Sort \/ ExecSetIndices \/ ExecDistanceMap \/ ExecSortPass

Spec == Init /\ [][Next]_vars

\* The last sort() was accepted by the device and all its dispatches ran.
Done == status = "ready" /\ last = "accepted" /\ queue = <<>>

\* ------------------------------------------------------------------------
\* Construction alone, over every type descriptor.
\* ------------------------------------------------------------------------
IndicesFor(kind) == IF kind = "index" THEN {"absent", "supplied"} ELSE {"absent"}

CreateConfigs ==
  {c \in [kind : SorterKinds, type : AllTypes, n : 0..MaxPlanN, mode : Modes, device : Devices,
          indices : {"absent", "supplied"}] : c.indices \in IndicesFor(c.kind)}

InitCreate ==
  /\ config \in CreateConfigs
  /\ status = "new"
  /\ error = "none"
  /\ internals = NoInternals
  /\ buffer = [i \in 0..(config.n - 1) |-> 0]
  /\ distances = [i \in 0..(config.n - 1) |-> 0]
  /\ indices = [i \in 0..(config.n - 1) |-> 0]
  /\ queue = <<>>
  /\ pre = buffer
  /\ last = "none"
  /\ oob = "unknown"
  /\ objects = {}
  /\ destroyed = {}
  /\ encoder = <<>>
  /\ lastCall = NoCall
  /\ touched = {}
  /\ HelperIdle

NextCreate == Create

SpecCreate == InitCreate /\ [][NextCreate]_vars

\* ------------------------------------------------------------------------
\* The life of a session: construction, encode() / sort() / destroy() in
\* any order, and the device running what was submitted.
\* ------------------------------------------------------------------------
LifeConfigs ==
  {c \in [kind : SorterKinds, type : SortableTypes, n : 0..MaxN, mode : {"ascending"},
          device : Devices, indices : {"absent", "supplied"}] :
     c.indices \in IndicesFor(c.kind)}

InitLife ==
  /\ config \in LifeConfigs
  /\ status = "new"
  /\ error = "none"
  /\ internals = NoInternals
  /\ buffer = [i \in 0..(config.n - 1) |-> 0]
  /\ distances = [i \in 0..(config.n - 1) |-> 0]
  /\ indices = [i \in 0..(config.n - 1) |-> 0]
  /\ queue = <<>>
  /\ pre = buffer
  /\ last = "none"
  /\ oob = "unknown"
  /\ objects = {}
  /\ destroyed = {}
  /\ encoder = <<>>
  /\ lastCall = NoCall
  /\ touched = {}
  /\ HelperIdle

NextLife ==
  Create \/ Encode \/ Sort \/ Destroy \/ ExecSetIndices \/ ExecDistanceMap \/ ExecSortPass

SpecLife == InitLife /\ [][NextLife]_vars

\* ------------------------------------------------------------------------
\* Vocabulary of the properties.
\* ------------------------------------------------------------------------
\* sort() was called and nothing it submitted is still pending.
SortFinished == status = "ready" /\ last # "none" /\ queue = <<>>

\* The sort key of a data element: the element itself for a Comparable
\* type, its distance for a Distance type.
SortKey(x) == IF HasDist THEN distance(config.type.dist, x) ELSE x

Precedes(a, b) ==
  IF HasComp THEN lessThan(config.type.comp, a, b) ELSE SortKey(a) < SortKey(b)

\* a may stand before b in the output of the chosen mode.
NotGreater(a, b) == IF config.mode = "ascending" THEN ~Precedes(b, a) ELSE ~Precedes(a, b)

Ordered(f) == \A i, j \in DOMAIN f : i < j => NotGreater(f[i], f[j])

Count(f, x) == Cardinality({i \in DOMAIN f : f[i] = x})

IsPermutationOf(f, g) ==
  /\ DOMAIN f = DOMAIN g
  /\ \A x \in {f[i] : i \in DOMAIN f} \cup {g[i] : i \in DOMAIN g} : Count(f, x) = Count(g, x)

Identity == [i \in Range |-> i]

\* ------------------------------------------------------------------------
\* C1..C10
\* ------------------------------------------------------------------------
\* C1: after the dispatches of sort() of an in-place Comparable sorter have
\* run, buffer[0..n) is a permutation of its initial contents, ordered
\* under lessThan for the mode, for every n and all device limits.
C1_InPlaceComparableSorted ==
  (Done /\ config.kind = "inplace" /\ HasComp)
    => (IsPermutationOf(buffer, pre) /\ Ordered(buffer))

\* C2: after sort() of an index sorter the index buffer is a permutation of
\* [0, n) and data[indices[i]] is ordered, data being the contents of the
\* data buffer when sort() was called.
C2_IndexSorted ==
  (Done /\ config.kind = "index")
    => /\ {indices[i] : i \in Range} = Range
       /\ Ordered([i \in Range |-> pre[indices[i]]])

\* C3: an index sort leaves every element of the caller's data buffer as it
\* was, for Comparable and Distance types.
C3_IndexSortKeepsData ==
  (SortFinished /\ config.kind = "index") => buffer = pre

\* C4: after sort() of an in-place Distance sorter the data buffer is a
\* permutation of its initial contents ordered by distance key.
C4_InPlaceDistanceSorted ==
  (Done /\ config.kind = "inplace" /\ HasDist)
    => (IsPermutationOf(buffer, pre) /\ Ordered(buffer))

\* The run of a whole plan on a kernel state, as a function.
RECURSIVE RunPasses(_, _, _, _, _, _, _)
RunPasses(ctx, st, params, i, groups, order, pol) ==
  IF i > Len(params) THEN st
  ELSE LET r == SortDispatch(ctx, st, params[i], groups, order, pol)
       IN RunPasses(ctx, [k |-> r.k, v |-> r.v], params, i + 1, groups, order, pol)

\* What a Comparable-mode session of the same kind, n, mode and device
\* leaves for the data `data`: the data buffer (in-place) or the data read
\* through the indices (index sort).
ComparableResult(data, order, pol) ==
  LET cfg == [config EXCEPT !.type = U32Type]
      ints == BuildInternals(cfg)
      final == IF CommandBufferValid(cfg, ints)
               THEN RunPasses(KernelCtx(cfg, ints.sort),
                              [k |-> data, v |-> [i \in DOMAIN data |-> i]],
                              ints.sort.params, 1, RTrunc(ints.sort.workGroupCount),
                              order, pol)
               ELSE [k |-> data, v |-> [i \in DOMAIN data |-> 0]]
  IN IF cfg.kind = "inplace" THEN final.k ELSE [i \in DOMAIN data |-> data[final.v[i]]]

SessionResult == IF config.kind = "inplace" THEN buffer ELSE [i \in Range |-> pre[indices[i]]]

\* C5: a Distance sort with the identity distance function leaves the same
\* result as the Comparable sort of the same data, n, mode and device.
C5_IdentityDistanceEqualsComparable ==
  (SortFinished /\ config.type.dist = "id")
    => \E order \in Orders, pol \in OobPolicies : SessionResult = ComparableResult(pre, order, pol)

\* C6: when the buffers are already sorted for the mode, sort() leaves
\* every key and every payload element where it was, also with equal keys.
C6_Idempotent ==
  (Done /\ Ordered(pre))
    => /\ config.kind = "inplace" => buffer = pre
       /\ config.kind = "index" => indices = Identity

\* C7: for n = 0 and n = 1 the plan is empty and sort() leaves the buffers
\* unchanged, except that an index sort with n = 1 leaves indices = [0].
C7_TrivialPlanEmpty ==
  /\ (status = "ready" /\ N <= 1) => internals.sort.params = <<>>
  /\ (SortFinished /\ N <= 1)
       => /\ buffer = pre
          /\ (config.kind = "index" /\ N = 1) => indices = Identity

\* C8: construction accepts a type iff exactly one of comp and dist is
\* present; with both or with neither it throws and returns no sorter.
C8_ExactlyOneOfCompDist ==
  status # "new"
    => LET c == config.type.comp # "none"
           d == config.type.dist # "none"
       IN /\ (c = d) => (status = "error" /\ internals = NoInternals)
          /\ status = "ready" => (c # d)
          /\ ((c # d) /\ error # "bindGroups") => status = "ready"

C8_Witness == status = "error" /\ error = "exactlyOne" /\ HasComp /\ HasDist

\* C9: for a Distance type with k auxiliary bind groups construction
\* succeeds iff the supplied indices are exactly 1..k in some order, and
\* throws otherwise; on success the reified list is sorted increasingly.
C9_BindGroupsConsecutive ==
  (status # "new" /\ HasDist /\ ~HasComp)
    => LET bg == config.type.bindGroups
           k == Len(bg)
       IN /\ status = "ready" <=> ({bg[i] : i \in 1..k} = 1..k)
          /\ status # "ready" => (status = "error" /\ error = "bindGroups")
          /\ status = "ready" => internals.bindGroups = [i \in 1..k |-> i]

C9_Witness ==
  /\ status = "ready"
  /\ HasDist
  /\ Len(config.type.bindGroups) = 2
  /\ config.type.bindGroups[1] > config.type.bindGroups[2]

\* C10: when the device limits leave less than one invocation's worth of
\* workgroup memory for an element, construction fails.
C10_TooSmallLimitsRejected ==
  (status # "new"
     /\ RLt(maxWorkGroupSizeForMemory(config.device.storage, KeySize(config.type),
                                      ValueSize(config.kind, config.type)), RInt(1)))
    => status = "error"

\* ------------------------------------------------------------------------
\* C11..C20
\* ------------------------------------------------------------------------
\* C11: when a constructor fails on a configuration error (both or neither
\* of comp and dist, or bad auxiliary bind group indices) it throws, returns
\* no session, and has created no device buffer, pipeline or bind group.
C11_ConstructionAllOrNothing ==
  status = "error"
    => /\ error \in {"exactlyOne", "bindGroups"}
       /\ internals = NoInternals
       /\ objects = {}

C11_Witness ==
  /\ status = "error"
  /\ error = "bindGroups"
  /\ config.kind = "index"
  /\ config.indices = "absent"

\* C12: whatever calls are made, the session never destroys the caller's
\* data buffer, nor the index buffer when the caller supplied it.
C12_CallerBuffersNeverDestroyed ==
  /\ DataBuffer \notin destroyed
  /\ config.indices = "supplied" => IndexBuffer \notin destroyed

C12_Witness ==
  /\ destroyed # {}
  /\ config.kind = "index"
  /\ config.indices = "supplied"
  /\ encoder # <<>>
  /\ lastCall.op = "sort"

\* C13: after destroy() every buffer the session allocated is destroyed:
\* each per-pass parameter buffer, the distance-key buffer of a Distance
\* type, and the index buffer when the caller did not supply one.
C13_DestroyReleasesOwned ==
  lastCall.op = "destroy"
    => /\ \A i \in 1..Len(internals.sort.params) : ParamBuffer(i) \in destroyed
       /\ HasDist => DistancesBuffer \in destroyed
       /\ (config.kind = "index" /\ config.indices = "absent") => IndexBuffer \in destroyed
       /\ {o \in objects : o.class = "buffer"} \subseteq destroyed

C13_Witness ==
  /\ lastCall.op = "destroy"
  /\ HasDist
  /\ config.kind = "index"
  /\ config.indices = "absent"
  /\ Len(internals.sort.params) >= 3

\* C14: a step that records into the caller's encoder appends exactly the
\* session's dispatches and submits nothing; a sort() step leaves the
\* caller's encoder alone, creates one encoder, records what encode()
\* records, submits once, and an index sorter returns the index buffer
\* (the caller's own when one was supplied).
C14_EncodeAppendsSortSubmitsOnce ==
  [][/\ encoder' # encoder
          => /\ encoder' = Append(encoder, Recorded(config, internals))
             /\ queue' = queue
             /\ last' = last
             /\ lastCall'.encoders = 0
             /\ lastCall'.submits = 0
     /\ (queue = <<>> /\ lastCall'.op = "sort")
          => /\ encoder' = encoder
             /\ lastCall'.encoders = 1
             /\ lastCall'.submits = 1
             /\ lastCall'.recorded = Recorded(config, internals)
             /\ last' \in {"accepted", "rejected"}
             /\ last' = "accepted" => queue' = lastCall'.recorded
             /\ last' = "rejected" => queue' = <<>>
             /\ lastCall'.returned = IF config.kind = "index" THEN IndexBuffer ELSE NoBuffer
             /\ (config.kind = "index" /\ config.indices = "supplied")
                  => IndexBuffer \notin objects]_vars

C14_Witness ==
  /\ lastCall.op = "sort"
  /\ last = "accepted"
  /\ encoder # <<>>
  /\ config.kind = "index"
  /\ config.indices = "supplied"

\* The shape C15 gives to one recording r.
InClaimedOrder(r) ==
  LET nI == IF config.kind = "index" THEN 1 ELSE 0
      nD == IF HasDist THEN 1 ELSE 0
      P == Len(internals.sort.params)
  IN /\ Len(r) = nI + nD + P
     /\ nI = 1 => r[1].op = "setIndices"
     /\ nD = 1 => r[nI + 1].op = "distanceMap"
     /\ \A i \in 1..P : r[nI + nD + i] = [op |-> "sort", pass |-> i]

\* C15: one encode() records the index-initialisation dispatch (index
\* mode), then the distance-mapping dispatch (Distance types), then one sort
\* dispatch per pass of the plan in plan order, and nothing else.
C15_DispatchOrder ==
  /\ \A c \in 1..Len(encoder) : InClaimedOrder(encoder[c])
  /\ lastCall.op \in {"encode", "sort"} => InClaimedOrder(lastCall.recorded)

C15_Witness ==
  /\ lastCall.op = "encode"
  /\ config.kind = "index"
  /\ HasDist
  /\ Len(internals.sort.params) >= 3

\* What a recording dispatches: (operation, phase, h, workgroup count).
Dispatched(r) ==
  [i \in DOMAIN r |->
     IF r[i].op = "sort"
     THEN <<"sort", internals.sort.params[r[i].pass].algorithm,
            internals.sort.params[r[i].pass].h, RTrunc(internals.sort.workGroupCount)>>
     ELSE IF r[i].op = "setIndices"
     THEN <<"setIndices", 0, 0, RTrunc(internals.index.workGroupCount)>>
     ELSE <<"distanceMap", 0, 0, RTrunc(internals.dist.workGroupCount)>>]

\* C16: the plan is computed at construction and every encode() / sort()
\* call records the same dispatches (phase, h, workgroup count); no call
\* adds, removes or changes a pass or its parameter block.
C16_PlanReconsumable ==
  status = "ready"
    => /\ internals = BuildInternals(config)
       /\ \A c \in 1..Len(encoder) :
            Dispatched(encoder[c]) = Dispatched(Recorded(config, BuildInternals(config)))
       /\ lastCall.op \in {"encode", "sort"}
            => Dispatched(lastCall.recorded) = Dispatched(Recorded(config, BuildInternals(config)))
       /\ {o \in objects : o.name = "param"}
            = {ParamBuffer(i) : i \in 1..Len(BuildInternals(config).sort.params)}

C16_Witness ==
  /\ Len(encoder) = 2
  /\ lastCall.op = "sort"
  /\ destroyed = {}
  /\ Len(internals.sort.params) >= 3

\* C17: every LocalDisperse pass of a plan has a distance of at most the
\* block size 2 * workGroupSize, and no fast-memory index leaves
\* [0, 2 * workGroupSize), for every n and all device limits (checked on
\* the plans whose shader the device accepts).
C17_LocalDisperseWithinBlock ==
  /\ (status = "ready" /\ SortPipelineValid(config, internals.sort))
       => \A i \in 1..Len(internals.sort.params) :
            internals.sort.params[i].algorithm = LocalDisperse
              => RLe(RInt(internals.sort.params[i].h),
                     RMulInt(internals.sort.workGroupSize, 2))
  /\ oob = "unknown"

\* The plan as C18 describes it, with exact distances.
RECURSIVE ClaimedDisperses(_, _)
ClaimedDisperses(hh, wgc) ==
  IF RLe(RInt(2), hh)
  THEN <<[h |-> hh, algorithm |-> IF RLe(hh, wgc) THEN LocalDisperse ELSE BigDisperse]>>
         \o ClaimedDisperses(RDivInt(hh, 2), wgc)
  ELSE <<>>

RECURSIVE ClaimedFlips(_, _, _)
ClaimedFlips(h, paddedN, wgc) ==
  IF RLe(h, RInt(paddedN))
  THEN <<[h |-> h, algorithm |-> BigFlip]>> \o ClaimedDisperses(RDivInt(h, 2), wgc)
         \o ClaimedFlips(RMulInt(h, 2), paddedN, wgc)
  ELSE <<>>

ClaimedPlan(paddedN, wgs, wgc) ==
  <<[h |-> RMulInt(wgs, 2), algorithm |-> LocalBms]>>
    \o ClaimedFlips(RMulInt(wgs, 4), paddedN, wgc)

\* C18: for n >= 2 the plan is LocalBms(2 wgs), then for h = 4 wgs, 8 wgs,
\* ... <= paddedN a BigFlip(h) followed by the disperses hh = h/2, ..., 2,
\* local when hh <= workGroupCount and global otherwise; no other pass
\* (checked on the plans whose shader the device accepts).
C18_ExactPlan ==
  (status = "ready" /\ N >= 2 /\ SortPipelineValid(config, internals.sort))
    => LET claimed == ClaimedPlan(alignedN(N), internals.sort.workGroupSize,
                                  internals.sort.workGroupCount)
       IN /\ Len(internals.sort.params) = Len(claimed)
          /\ \A i \in 1..Len(claimed) :
               /\ internals.sort.params[i].algorithm = claimed[i].algorithm
               /\ RInt(internals.sort.params[i].h) = claimed[i].h

\* C19: paddedN = nextPowerOfTwo(n); workGroupSize is the least of the
\* invocation limit, the memory budget over twice nextPowerOfTwo of the
\* bytes per item (key plus payload, when one is carried) and paddedN / 2;
\* workGroupCount = paddedN / (2 workGroupSize).
C19_PlannerFormulas ==
  status = "ready"
    => LET paddedN == nextPowerOfTwo(N)
           keyBytes == IF HasDist THEN 4 ELSE config.type.size
           payloadBytes == IF config.kind = "index" THEN 4
                           ELSE IF HasDist THEN config.type.size ELSE 0
           perItem == nextPowerOfTwo(keyBytes + payloadBytes)
           wgs == internals.sort.workGroupSize
           wgc == internals.sort.workGroupCount
           \* wgs <= x / y and wgs = x / y, for positive y
           AtMost(x, y) == wgs.num * y <= x * wgs.den
           Equals(x, y) == wgs.num * y = x * wgs.den
       IN /\ AtMost(config.device.maxX, 1)
          /\ AtMost(config.device.storage, 2 * perItem)
          /\ AtMost(paddedN, 2)
          /\ \/ Equals(config.device.maxX, 1)
             \/ Equals(config.device.storage, 2 * perItem)
             \/ Equals(paddedN, 2)
          /\ wgc.num * 2 * wgs.num = paddedN * wgc.den * wgs.den

C19_Witness ==
  /\ status = "ready"
  /\ config.kind = "index"
  /\ config.type.size = 8
  /\ RLt(internals.sort.workGroupSize, RInt(config.device.maxX))
  /\ RLt(internals.sort.workGroupSize, Rat(alignedN(N), 2))
  /\ RLe(RInt(1), internals.sort.workGroupSize)

\* C20: no invocation of a sort dispatch reads or writes an element of the
\* key or payload buffer at an index >= n.
C20_NoAccessBeyondN ==
  \A i \in touched : i < N

C20_Witness ==
  /\ N = 3
  /\ touched = {0, 1, 2}
  /\ RTrunc(internals.sort.workGroupSize) = 2

\* ------------------------------------------------------------------------
\* C21..C30
\* ------------------------------------------------------------------------
\* The number of positions of [0, n) that hold the pair <<key, payload>>.
PairCount(k, v, pair) == Cardinality({i \in Range : <<k[i], v[i]>> = pair})

SamePairs(k1, v1, k2, v2) ==
  \A pair \in {<<k1[i], v1[i]>> : i \in Range} \cup {<<k2[i], v2[i]>> : i \in Range} :
    PairCount(k1, v1, pair) = PairCount(k2, v2, pair)

\* C21: in a session that carries a payload, every sort pass leaves the
\* multiset of (key[i], payload[i]) pairs over [0, n) as it found it.
C21_PairsMoveTogether ==
  [][(HasValue(config) /\ queue # <<>> /\ Head(queue).op = "sort" /\ queue' = Tail(queue))
        => SamePairs(Keys, Values, Keys', Values')]_vars

\* The key order of the session's mode: a may stand before b.
KeyNotGreater(a, b) ==
  LET comp == KernelCtx(config, internals.sort).comp
  IN IF config.mode = "ascending" THEN ~lessThan(comp, b, a) ELSE ~lessThan(comp, a, b)

\* Every w-aligned window [q, q + w) of k, cut at n, is sorted.
WindowsSorted(k, w) ==
  \A i, j \in Range : (i < j /\ i \div w = j \div w) => KeyNotGreater(k[i], k[j])

\* The first sort pass of the last accepted submission has run, and no later one.
AfterLocalBms ==
  /\ status = "ready"
  /\ last = "accepted"
  /\ Len(queue) = Len(internals.sort.params) - 1

\* C22: after the LocalBms pass every block of 2 * workGroupSize keys, cut
\* at n, is sorted under the session's mode.
C22_BlocksSortedAfterLocalBms ==
  AfterLocalBms => WindowsSorted(Keys, 2 * RTrunc(internals.sort.workGroupSize))

\* The position after pass i of the first BigFlip pass, or Len(params) + 1.
RECURSIVE NextFlip(_, _)
NextFlip(params, i) ==
  IF i >= Len(params) THEN Len(params) + 1
  ELSE IF params[i + 1].algorithm = BigFlip THEN i + 1
  ELSE NextFlip(params, i + 1)

\* C23: when every h/2-aligned window of the keys is sorted before the
\* BigFlip(h) pass, every h-aligned window is sorted after BigFlip(h) and
\* the disperse passes scheduled for h have run.
C23_MergePhaseInvariant ==
  (/\ status = "ready"
   /\ queue # <<>>
   /\ Head(queue).op = "sort"
   /\ internals.sort.params[Head(queue).pass].algorithm = BigFlip
   /\ WindowsSorted(Keys, internals.sort.params[Head(queue).pass].h \div 2))
    => LET first == Head(queue).pass
           h == internals.sort.params[first].h
           iteration == SubSeq(internals.sort.params, first,
                               NextFlip(internals.sort.params, first) - 1)
       IN \A order \in Orders, pol \in (IF oob = "unknown" THEN OobPolicies ELSE {oob}) :
            WindowsSorted(RunPasses(KernelCtx(config, internals.sort),
                                    [k |-> Keys, v |-> Values], iteration, 1,
                                    RTrunc(internals.sort.workGroupCount), order, pol).k,
                          h)

\* The buffer elements invocation t_prime of the Big pass p touches.
BigAccess(ctx, p, t_prime) ==
  IF p.algorithm = BigFlip THEN big_flip_access(ctx, t_prime, p.h)
  ELSE big_disperse_access(ctx, t_prime, p.h)

\* C24: in every BigFlip / BigDisperse dispatch of a plan, distinct
\* invocations t in [0, paddedN / 2) compare and swap disjoint index pairs.
C24_GlobalPairsDisjoint ==
  (status = "ready" /\ SortPipelineValid(config, internals.sort))
    => \A i \in 1..Len(internals.sort.params) :
         internals.sort.params[i].algorithm >= BigFlip
           => \A t1, t2 \in 0..((alignedN(N) \div 2) - 1) :
                t1 # t2 => BigAccess(KernelCtx(config, internals.sort),
                                     internals.sort.params[i], t1)
                             \cap BigAccess(KernelCtx(config, internals.sort),
                                            internals.sort.params[i], t2) = {}

IsPowerOfTwo(k) == k >= 1 /\ Pow2(BitLength(k) - 1) = k

\* C30: for n >= 2 and any positive integer limits the planner's
\* workGroupSize is a positive integer power of two, workGroupCount is a
\* positive integer, and 2 * workGroupSize * workGroupCount = paddedN
\* (stated for limits whose workgroup memory holds at least one block).
C30_WorkGroupSizePowerOfTwo ==
  (/\ status = "ready"
   /\ N >= 2
   /\ RLe(RInt(1), maxWorkGroupSizeForMemory(config.device.storage, KeySize(config.type),
                                             ValueSize(config.kind, config.type))))
    => /\ RIsInt(internals.sort.workGroupSize)
       /\ IsPowerOfTwo(internals.sort.workGroupSize.num)
       /\ RIsInt(internals.sort.workGroupCount)
       /\ internals.sort.workGroupCount.num >= 1
       /\ 2 * internals.sort.workGroupSize.num * internals.sort.workGroupCount.num
            = alignedN(N)

\* The index-initialisation dispatch of the last accepted submission has
\* run, and no later dispatch.
AfterSetIndices ==
  /\ status = "ready"
  /\ config.kind = "index"
  /\ last = "accepted"
  /\ Len(queue) = Len(Recorded(config, internals)) - 1

\* C28: after the index-initialisation dispatch indices[i] = i for every
\* i in [0, n), for every n and every device limit.
C28_IndexInitCoversRange == AfterSetIndices => indices = Identity

\* What sort() of a Comparable index sorter leaves in the index buffer for
\* the data `data` when the index buffer held `prior` before the call.
IndexRunResult(data, prior, order, pol) ==
  RunPasses(KernelCtx(config, internals.sort),
            [k |-> data,
             v |-> SetIndicesDispatch(N, prior,
                     RTrunc(internals.index.workGroupCount)
                       * RTrunc(internals.index.workGroupSize))],
            internals.sort.params, 1, RTrunc(internals.sort.workGroupCount), order, pol).v

\* C29: the index buffer an index sort ends with is the one a run on the
\* same data with a zero-filled index buffer ends with, whatever the index
\* buffer held before the call (here: the output of the previous sort()).
C29_IndexResultIndependentOfPrior ==
  (Done /\ config.kind = "index" /\ HasComp)
    => \E order \in Orders, pol \in OobPolicies :
         indices = IndexRunResult(pre, [i \in Range |-> 0], order, pol)

\* ------------------------------------------------------------------------
\* Planning for larger n: the sizes the kernel's index arithmetic is
\* examined for, and the sizes of the documented examples (16 and 1000
\* elements on a device with the default limits).
\* ------------------------------------------------------------------------
MaxKernelN == 17

ExampleSizes == {16, 1000}

DefaultLimits == [maxX |-> 256, storage |-> 16384]

PlanConfigs ==
  [kind : SorterKinds, type : SortableTypes, n : (0..MaxKernelN) \cup ExampleSizes,
   mode : Modes, device : Devices \cup {DefaultLimits}, indices : {"absent"}]

InitPlan ==
  /\ config \in PlanConfigs
  /\ status = "new"
  /\ error = "none"
  /\ internals = NoInternals
  /\ buffer = [i \in 0..(config.n - 1) |-> 0]
  /\ distances = [i \in 0..(config.n - 1) |-> 0]
  /\ indices = [i \in 0..(config.n - 1) |-> 0]
  /\ queue = <<>>
  /\ pre = buffer
  /\ last = "none"
  /\ oob = "unknown"
  /\ objects = {}
  /\ destroyed = {}
  /\ encoder = <<>>
  /\ lastCall = NoCall
  /\ touched = {}
  /\ HelperIdle

NextPlan == Create

SpecPlan == InitPlan /\ [][NextPlan]_vars

\* The elements of the workgroup arrays local_k / local_v that the kernel
\* reads or writes.  An index outside array<_, 2 * wgs> touches the last
\* element on a build that clamps it and no element on a build that drops
\* the access.
LocalElement(ctx, i, pol) ==
  IF i < LocalSize(ctx) THEN {i}
  ELSE IF pol = "clamp" THEN {LocalSize(ctx) - 1} ELSE {}

local_compare_and_swap_access(ctx, x, y, offset, pol) ==
  IF offset + x >= ctx.n \/ offset + y >= ctx.n THEN {}
  ELSE LocalElement(ctx, x, pol) \cup LocalElement(ctx, y, pol)

local_flip_access(ctx, t, h, offset, pol) ==
  LET half_h == h \div 2
      base == h * ((2 * t) \div h)
  IN local_compare_and_swap_access(ctx, base + UMod(t, half_h),
                                   base + ((h - 1) - UMod(t, half_h)), offset, pol)

local_disperse_access(ctx, t, hh, offset, pol) ==
  LET half_h == hh \div 2
      base == hh * ((2 * t) \div hh)
  IN local_compare_and_swap_access(ctx, base + UMod(t, half_h),
                                   base + half_h + UMod(t, half_h), offset, pol)

\* local_init and local_flush of element i.
local_copy_access(ctx, offset, i) == IF offset + i < ctx.n THEN {i} ELSE {}

\* What one invocation executes in a LocalBms / LocalDisperse pass, in
\* program order: the barriers and, between them, the phases that touch
\* the workgroup arrays.
RECURSIVE local_disperse_phases(_)
local_disperse_phases(hh) ==
  IF hh > 1
  THEN <<[kind |-> "barrier", h |-> 0], [kind |-> "disperse", h |-> hh]>>
         \o local_disperse_phases(hh \div 2)
  ELSE <<>>

local_flip_phases(h) == <<[kind |-> "barrier", h |-> 0], [kind |-> "flip", h |-> h]>>

RECURSIVE local_bms_phases(_, _)
local_bms_phases(hh, h) ==
  IF hh <= h
  THEN local_flip_phases(hh) \o local_disperse_phases(hh \div 2) \o local_bms_phases(hh * 2, h)
  ELSE <<>>

main_phases(p) ==
  <<[kind |-> "init", h |-> 0]>>
    \o (IF p.algorithm = LocalBms THEN local_bms_phases(2, p.h) ELSE local_disperse_phases(p.h))
    \o <<[kind |-> "barrier", h |-> 0], [kind |-> "flush", h |-> 0]>>

PhaseAccess(ctx, ph, t, offset, pol) ==
  IF ph.kind = "flip" THEN local_flip_access(ctx, t, ph.h, offset, pol)
  ELSE IF ph.kind = "disperse" THEN local_disperse_access(ctx, t, ph.h, offset, pol)
  ELSE IF ph.kind = "barrier" THEN {}
  ELSE local_copy_access(ctx, offset, t * 2) \cup local_copy_access(ctx, offset, (t * 2) + 1)

\* Every two phases that touch the workgroup arrays have a barrier between them.
BarrierSeparated(phases) ==
  \A i \in 1..(Len(phases) - 1) : phases[i].kind = "barrier" \/ phases[i + 1].kind = "barrier"

\* No two invocations of workgroup wg touch the same element in a phase.
RaceFree(ctx, phases, wg, pol) ==
  \A i \in 1..Len(phases) :
    \A t1, t2 \in 0..(ctx.wgs - 1) :
      t1 # t2 => PhaseAccess(ctx, phases[i], t1, ctx.wgs * 2 * wg, pol)
                   \cap PhaseAccess(ctx, phases[i], t2, ctx.wgs * 2 * wg, pol) = {}

\* C25: in every LocalBms / LocalDisperse pass of a plan the load, the
\* merge sub-stages and the flush are separated by barriers, and between two
\* barriers no two invocations of a workgroup touch the same element of
\* the workgroup arrays.
C25_LocalPassRaceFree ==
  (status = "ready" /\ N <= MaxKernelN /\ SortPipelineValid(config, internals.sort))
    => \A i \in 1..Len(internals.sort.params) :
         internals.sort.params[i].algorithm <= LocalDisperse
           => /\ BarrierSeparated(main_phases(internals.sort.params[i]))
              /\ \A wg \in 0..(RTrunc(internals.sort.workGroupCount) - 1), pol \in OobPolicies :
                   RaceFree(KernelCtx(config, internals.sort),
                            main_phases(internals.sort.params[i]), wg, pol)

\* C26: for n = 1000 with workgroup size 256 the plan is one LocalBms pass,
\* BigFlip(1024), then one disperse pass for each of 512, 256, ..., 2 in
\* this order, the one at 512 a BigDisperse (workGroupCount = 2), and
\* nothing else.
C26_PlanFor1000 ==
  (status = "ready" /\ N = 1000 /\ internals.sort.workGroupSize = RInt(256))
    => /\ alignedN(N) = 1024
       /\ internals.sort.workGroupCount = RInt(2)
       /\ Len(internals.sort.params) = 11
       /\ internals.sort.params[1].algorithm = LocalBms
       /\ internals.sort.params[2] = [h |-> 1024, algorithm |-> BigFlip]
       /\ \A j \in 1..9 :
            /\ internals.sort.params[2 + j].h = 1024 \div Pow2(j)
            /\ internals.sort.params[2 + j].algorithm \in {LocalDisperse, BigDisperse}
       /\ internals.sort.params[3].algorithm = BigDisperse

C26_Witness ==
  /\ status = "ready"
  /\ N = 1000
  /\ internals.sort.workGroupSize = RInt(256)
  /\ internals.sort.params[3] = [h |-> 512, algorithm |-> BigDisperse]

\* ------------------------------------------------------------------------
\* The 16-element example: an in-place sort of u32 keys with 16 elements,
\* on data with at most MaxOnes elements different from the rest.
\* ------------------------------------------------------------------------
MaxOnes == 2

ExampleN == 16

ExampleDevices == {[maxX |-> 4, storage |-> 64], [maxX |-> 8, storage |-> 64], DefaultLimits}

ExampleConfigs ==
  [kind : {"inplace"}, type : {U32Type}, n : {ExampleN}, mode : Modes,
   device : ExampleDevices, indices : {"absent"}]

ExampleBuffers(n) ==
  {[i \in 0..(n - 1) |-> IF i \in ones THEN 1 ELSE 0] :
     ones \in {s \in SUBSET (0..(n - 1)) : Cardinality(s) <= MaxOnes}}

InitExample ==
  /\ config \in ExampleConfigs
  /\ status = "new"
  /\ error = "none"
  /\ internals = NoInternals
  /\ buffer \in ExampleBuffers(config.n)
  /\ distances = [i \in 0..(config.n - 1) |-> 0]
  /\ indices = [i \in 0..(config.n - 1) |-> 0]
  /\ queue = <<>>
  /\ pre = buffer
  /\ last = "none"
  /\ oob = "unknown"
  /\ objects = {}
  /\ destroyed = {}
  /\ encoder = <<>>
  /\ lastCall = NoCall
  /\ touched = {}
  /\ HelperIdle

NextExample == Create \/ Sort \/ ExecSortPass

SpecExample == InitExample /\ [][NextExample]_vars

C32_NoDispatchOnDestroyedBuffers ==
  (lastCall.op \in {"encode", "sort"} /\ lastCall.recorded # <<>>)
    => UsedBuffers(config, internals) \cap destroyed = {}

\* ------------------------------------------------------------------------
\* The helper functions called on their own: nextPowerOfTwo and, from the
\* earlier single-function sort, computeNumberOfDispatches.
\* ------------------------------------------------------------------------
MaxValue == 40

\* Small values, and the values around every power of two of the int32 range.
MathValues ==
  (0..MaxValue)
    \cup UNION {{Pow2(k) - 1, Pow2(k), Pow2(k) + 1} : k \in 1..30}
    \cup {2147483647}

MathCalls ==
  {[fn |-> "nextPowerOfTwo", value |-> v] : v \in MathValues}
    \cup {[fn |-> "computeNumberOfDispatches", n |-> n, maxX |-> x] :
            n \in 0..MaxValue, x \in MaxXSet \cup {DefaultLimits.maxX}}

\* let log2 = (x) => 31 - Math.clz32(x); clz32 takes its argument as a uint32.
log2(x) == 31 - Clz32(RTrunc(x))

\* outerLoops * (2 * (log2(wgs) + 1) + outerLoops - 1) is even, so the
\* product with outerLoops / 2 is the exact half of it.
computeNumberOfDispatches(n, wgs) ==
  LET outerLoops == (log2(RInt(n)) - log2(wgs)) - 1
      innerLoops == (outerLoops * (((2 * (log2(wgs) + 1)) + outerLoops) - 1)) \div 2
  IN (1 + outerLoops) + innerLoops

\* sort(device, buffer, n) of the single-function variant: its workgroup
\* size, and the number of dispatchWorkgroups calls of its schedule loop
\* (the same loop as in initKeyValueInPlaceSort).
sort_workGroupSize(maxX, n) == RMin(RInt(maxX), Rat(alignedN(n), 2))

sort_dispatches(n, maxX) ==
  Len(Schedule(n, sort_workGroupSize(maxX, n),
               RDiv(RInt(alignedN(n)), RMulInt(sort_workGroupSize(maxX, n), 2))))

session == <<config, status, error, internals, buffer, distances, indices, queue, pre, last,
             oob, objects, destroyed, encoder, lastCall, touched>>

\* No session exists while a helper is called on its own.
NoSession ==
  /\ config = [kind |-> "none", n |-> 0]
  /\ status = "new"
  /\ error = "none"
  /\ internals = NoInternals
  /\ buffer = <<>>
  /\ distances = <<>>
  /\ indices = <<>>
  /\ queue = <<>>
  /\ pre = <<>>
  /\ last = "none"
  /\ oob = "unknown"
  /\ objects = {}
  /\ destroyed = {}
  /\ encoder = <<>>
  /\ lastCall = NoCall
  /\ touched = {}

InitMath ==
  /\ NoSession
  /\ args \in MathCalls
  /\ ret = 0
  /\ pc = "call"
  /\ sched_alignedN = 0
  /\ sched_workGroupSize = 0
  /\ sched_h = 0
  /\ sched_hh = 0

CallNextPowerOfTwo ==
  /\ pc = "call"
  /\ args.fn = "nextPowerOfTwo"
  /\ ret' = nextPowerOfTwo(args.value)
  /\ pc' = "done"
  /\ UNCHANGED <<session, args, sched_alignedN, sched_workGroupSize, sched_h, sched_hh>>

CallComputeNumberOfDispatches ==
  /\ pc = "call"
  /\ args.fn = "computeNumberOfDispatches"
  /\ ret' = computeNumberOfDispatches(args.n, sort_workGroupSize(args.maxX, args.n))
  /\ pc' = "done"
  /\ UNCHANGED <<session, args, sched_alignedN, sched_workGroupSize, sched_h, sched_hh>>

NextMath == CallNextPowerOfTwo \/ CallComputeNumberOfDispatches

SpecMath == InitMath /\ [][NextMath]_vars

\* C33: computeNumberOfDispatches(n, wgs) is the number of dispatch calls
\* sort() issues for n elements with workgroup size wgs.
C33_DispatchCount ==
  (pc = "done" /\ args.fn = "computeNumberOfDispatches")
    => ret = sort_dispatches(args.n, args.maxX)

\* C34: nextPowerOfTwo(value) is the smallest power of two that is at
\* least value.
C34_NextPowerOfTwo ==
  (pc = "done" /\ args.fn = "nextPowerOfTwo")
    => /\ IsPowerOfTwo(ret)
       /\ ret >= args.value
       /\ ret = 1 \/ ret \div 2 < args.value

\* ------------------------------------------------------------------------
\* The schedule loop of initKeyValueInPlaceSort, one loop step at a time.
\* Its numbers are JS doubles of the form num * 2^exp (every divisor in the
\* planner is a power of two), kept as [num, exp] with num odd; a double
\* of magnitude 2^1024 or more is an infinity, kept as exp = InfExp.
\* ------------------------------------------------------------------------
MaxScheduleN == 9

InfExp == 1024

RECURSIVE DNorm(_, _)
DNorm(num, exp) ==
  IF num = 0 THEN [num |-> 0, exp |-> 0]
  ELSE IF num % 2 = 0 THEN DNorm(num \div 2, exp + 1)
  ELSE [num |-> num, exp |-> exp]

DInt(a) == DNorm(a, 0)

\* a / d for d a power of two.
DDivPow2(a, d) == LET x == DNorm(a, 0) IN
  IF x.num = 0 THEN x ELSE [num |-> x.num, exp |-> x.exp - (BitLength(d) - 1)]

DAbs(a) == IF a < 0 THEN 0 - a ELSE a

DIsInf(x) == x.exp = InfExp

\* x * 2
DDouble(x) ==
  IF x.num = 0 \/ DIsInf(x) THEN x
  ELSE IF (x.exp + 1) + (BitLength(DAbs(x.num)) - 1) >= InfExp
       THEN [num |-> IF x.num < 0 THEN 0 - 1 ELSE 1, exp |-> InfExp]
       ELSE [num |-> x.num, exp |-> x.exp + 1]

\* x / 2
DHalf(x) == IF x.num = 0 \/ DIsInf(x) THEN x ELSE [num |-> x.num, exp |-> x.exp - 1]

DMul(x, y) ==
  IF x.num = 0 \/ y.num = 0 THEN [num |-> 0, exp |-> 0]
  ELSE [num |-> x.num * y.num, exp |-> x.exp + y.exp]

\* a * 2^ea <= b * 2^eb for positive a, b below 2^31.
DMagLe(a, ea, b, eb) ==
  IF ea >= eb
  THEN IF BitLength(a) + (ea - eb) > 31 THEN FALSE ELSE a * Pow2(ea - eb) <= b
  ELSE IF BitLength(b) + (eb - ea) > 31 THEN TRUE ELSE a <= b * Pow2(eb - ea)

DLe(x, y) ==
  IF x.num = 0 THEN y.num >= 0
  ELSE IF y.num = 0 THEN x.num < 0
  ELSE IF x.num < 0 /\ y.num > 0 THEN TRUE
  ELSE IF x.num > 0 /\ y.num < 0 THEN FALSE
  ELSE IF x.num > 0 THEN DMagLe(x.num, x.exp, y.num, y.exp)
  ELSE DMagLe(0 - y.num, y.exp, 0 - x.num, x.exp)

DLt(x, y) == ~DLe(y, x)

DMin(x, y) == IF DLe(x, y) THEN x ELSE y

ScheduleSizes == (0..MaxScheduleN) \cup {Pow2(30), Pow2(30) + 1, 2147483647}

\* bytes is the size of a key plus the size of its payload.
ScheduleCalls ==
  [fn : {"initKeyValueInPlaceSort"}, n : ScheduleSizes, bytes : {4, 16},
   device : Devices \cup {DefaultLimits}]

\* const alignedN = nextPowerOfTwo(n); const workGroupSize = Math.min(...)
planned_workGroupSize(a) ==
  DMin(DInt(a.device.maxX),
       DMin(DDivPow2(a.device.storage, 2 * nextPowerOfTwo(a.bytes)),
            DHalf(DInt(alignedN(a.n)))))

\* hh <= workGroupCount, with workGroupCount = alignedN / (workGroupSize * 2).
sched_hhFitsCount(hh) ==
  IF sched_workGroupSize.num > 0
  THEN DLe(DMul(hh, DDouble(sched_workGroupSize)), sched_alignedN)
  ELSE DLe(sched_alignedN, DMul(hh, DDouble(sched_workGroupSize)))

\* The call has computed alignedN and workGroupSize and is about to build
\* the schedule.
InitSchedule ==
  /\ NoSession
  /\ args \in ScheduleCalls
  /\ sched_alignedN = DInt(alignedN(args.n))
  /\ sched_workGroupSize = planned_workGroupSize(args)
  /\ ret = [h |-> DInt(0), algorithm |-> LocalBms]
  /\ pc = "start"
  /\ sched_h = DInt(0)
  /\ sched_hh = DInt(0)

\* let h = workGroupSize * 2; bitonicPass(h, LocalBms); h *= 2;
ScheduleStart ==
  /\ pc = "start"
  /\ ret' = [h |-> DDouble(sched_workGroupSize), algorithm |-> LocalBms]
  /\ sched_h' = DDouble(DDouble(sched_workGroupSize))
  /\ pc' = "outer"
  /\ UNCHANGED <<session, args, sched_alignedN, sched_workGroupSize, sched_hh>>

\* for (; h <= alignedN; ...) { bitonicPass(h, BigFlip); for (var hh = h / 2; ...
ScheduleOuter ==
  /\ pc = "outer"
  /\ IF DLe(sched_h, sched_alignedN)
     THEN /\ ret' = [h |-> sched_h, algorithm |-> BigFlip]
          /\ sched_hh' = DHalf(sched_h)
          /\ pc' = "inner"
     ELSE /\ pc' = "done"
          /\ UNCHANGED <<ret, sched_hh>>
  /\ UNCHANGED <<session, args, sched_alignedN, sched_workGroupSize, sched_h>>

\* for (...; hh > 1; hh /= 2) { bitonicPass(hh, ...) }, then h *= 2
ScheduleInner ==
  /\ pc = "inner"
  /\ IF DLt(DInt(1), sched_hh)
     THEN /\ ret' = [h |-> sched_hh,
                     algorithm |-> IF sched_hhFitsCount(sched_hh)
                                   THEN LocalDisperse ELSE BigDisperse]
          /\ sched_hh' = DHalf(sched_hh)
          /\ UNCHANGED <<pc, sched_h>>
     ELSE /\ sched_h' = DDouble(sched_h)
          /\ pc' = "outer"
          /\ UNCHANGED <<ret, sched_hh>>
  /\ UNCHANGED <<session, args, sched_alignedN, sched_workGroupSize>>

NextSchedule == ScheduleStart \/ ScheduleOuter \/ ScheduleInner

SpecSchedule == InitSchedule /\ [][NextSchedule]_vars

\* The function keeps executing: no step of it waits for anything.
SpecScheduleFair == SpecSchedule /\ WF_vars(NextSchedule)

\* C31: the construction of the pass plan terminates for every n >= 0,
\* every element size and all device limits >= 1.
C31_PlanningTerminates == <>(pc = "done")

====
